---- MODULE Spec2Model ----
(***************************************************************************)
(* Value-at-Risk app (src/app.py): a Streamlit script that is re-run from  *)
(* top to bottom on every button press.  st.session_state survives the     *)
(* runs; everything else is recomputed.  One action below is one complete  *)
(* script run with one of the three buttons pressed.                       *)
(*                                                                         *)
(* Numbers.  Python floats are modelled as exact rationals [nan, num, den] *)
(* (NaN is a value of its own, as in IEEE arithmetic); rounding error is   *)
(* not modelled.  Dates are day numbers.  A percentile input such as 95.00 *)
(* is held in hundredths of a percent (9500).                              *)
(***************************************************************************)
EXTENDS Integers, Sequences, FiniteSets, TLC

VARIABLES session_state, click, world, lastRun

vars == <<session_state, click, world, lastRun>>

-----------------------------------------------------------------------------
(* Bounds of the model *)

MaxDate == 6
VarRows == 3
HlRows == 2
RvRows == 5
SessionRows == 2
MaxPrice == 2
MaxSim == 2
MaxSample == 1

(* Program constants *)

MinPeriod == 1
MaxPeriod == 30
MinPct == 1
MaxPct == 9999
DefaultPct == 9500
DefaultHlPct == 9900
MinWindow == 1
TradingDays == 250

-----------------------------------------------------------------------------
(* Floats as exact rationals *)

RECURSIVE Gcd(_, _)
Gcd(a, b) == IF b = 0 THEN a ELSE Gcd(b, a % b)

Abs(a) == IF a < 0 THEN -a ELSE a

NaN == [nan |-> TRUE, num |-> 0, den |-> 1]

Rat(n, d) ==
    LET g == Gcd(Abs(n), Abs(d))
        s == IF d < 0 THEN -1 ELSE 1
    IN  [nan |-> FALSE, num |-> s * (n \div g), den |-> s * (d \div g)]

FAdd(a, b) == IF a.nan \/ b.nan THEN NaN
              ELSE Rat(a.num * b.den + b.num * a.den, a.den * b.den)

FSub(a, b) == IF a.nan \/ b.nan THEN NaN
              ELSE Rat(a.num * b.den - b.num * a.den, a.den * b.den)

FMul(a, b) == IF a.nan \/ b.nan THEN NaN
              ELSE Rat(a.num * b.num, a.den * b.den)

\* a / b; a zero divisor gives NaN for 0/0 (the only zero division the
\* script performs is the mean of an empty selection)
FDiv(a, b) == IF a.nan \/ b.nan \/ b.num = 0 THEN NaN
              ELSE Rat(a.num * b.den, a.den * b.num)

\* IEEE comparisons: every comparison with NaN is false
FLess(a, b) == ~a.nan /\ ~b.nan /\ a.num * b.den < b.num * a.den

FLeq(a, b) == ~a.nan /\ ~b.nan /\ a.num * b.den <= b.num * a.den

FInt(n) == Rat(n, 1)

RECURSIVE FSum(_)
FSum(s) == IF s = <<>> THEN FInt(0) ELSE FAdd(Head(s), FSum(Tail(s)))

-----------------------------------------------------------------------------
(* pandas / numpy operations used by the script.  A Series is a sequence   *)
(* of [Date, v]: the index label of the row and its value.                 *)

Min(a, b) == IF a < b THEN a ELSE b

Values(s) == [i \in 1..Len(s) |-> s[i].v]

Index(s) == {s[i].Date : i \in 1..Len(s)}

\* Series.dropna()
dropna(s) == SelectSeq(s, LAMBDA e : ~e.v.nan)

\* Series.pct_change(periods): value / value `periods` rows earlier - 1,
\* NaN on the first `periods` rows
pct_change(s, periods) ==
    [i \in 1..Len(s) |->
        [Date |-> s[i].Date,
         v |-> IF i <= periods THEN NaN
               ELSE FSub(FDiv(s[i].v, s[i - periods].v), FInt(1))]]

\* mean of an array of floats; NaN for an empty array (0/0)
Mean(a) == FDiv(FSum(a), FInt(Len(a)))

\* Series.std() is the (n-1) sample standard deviation.  A square root is
\* not rational, so the model carries the standard deviation by its square.
StdSq(a) ==
    IF Len(a) < 2 THEN NaN
    ELSE LET m == Mean(a)
             sq == [i \in 1..Len(a) |-> FMul(FSub(a[i], m), FSub(a[i], m))]
         IN  FDiv(FSum(sq), FInt(Len(a) - 1))

\* the trailing window of w rows ending at row i
Window(s, w, i) == [j \in 1..w |-> s[i - w + j].v]

HasNaN(a) == \E i \in 1..Len(a) : a[i].nan

\* Series.rolling(w).sum(): NaN until w observations are in the window
rolling_sum(s, w) ==
    [i \in 1..Len(s) |->
        [Date |-> s[i].Date,
         v |-> IF i < w \/ HasNaN(Window(s, w, i)) THEN NaN
               ELSE FSum(Window(s, w, i))]]

\* a rolling standard deviation that is one observation short of its window
rolling_std_OneShort(s, w) ==
    [i \in 1..Len(s) |->
        [Date |-> s[i].Date,
         v |-> IF i < w \/ HasNaN(Window(s, w - 1, i)) THEN NaN
               ELSE StdSq(Window(s, w - 1, i))]]

\* Series.rolling(w).std(), carried by its square
rolling_std(s, w) ==
    [i \in 1..Len(s) |->
        [Date |-> s[i].Date,
         v |-> IF i < w \/ HasNaN(Window(s, w, i)) THEN NaN
               ELSE StdSq(Window(s, w, i))]]

\* sorted copy of an array of (non-NaN) floats
RECURSIVE Insert(_, _)
Insert(x, s) ==
    IF s = <<>> THEN <<x>>
    ELSE IF FLeq(x, Head(s)) THEN <<x>> \o s
    ELSE <<Head(s)>> \o Insert(x, Tail(s))

RECURSIVE Sort(_)
Sort(a) == IF a = <<>> THEN <<>> ELSE Insert(Head(a), Sort(Tail(a)))

\* floor of a non-negative rational
Floor(a) == a.num \div a.den

\* np.percentile(a, q) for a non-empty array, default linear interpolation:
\* the value at virtual index q/100 * (n-1) of the sorted array
percentile(a, q) ==
    IF HasNaN(a) \/ q.nan THEN NaN
    ELSE LET s == Sort(a)
             n == Len(s)
             vi == FMul(FDiv(q, FInt(100)), FInt(n - 1))
             lo == Floor(vi)
             hi == Min(lo + 1, n - 1)
             frac == FSub(vi, FInt(lo))
         IN  FAdd(s[lo + 1], FMul(frac, FSub(s[hi + 1], s[lo + 1])))

\* np.random.normal(mu, sigma, size): NaN parameters give NaN draws, a zero
\* sigma gives mu, and otherwise the draws are whatever the generator yields
normal(mu, sigmaSq, size, rng) ==
    [i \in 1..size |->
        IF mu.nan \/ sigmaSq.nan THEN NaN
        ELSE IF sigmaSq.num = 0 THEN mu
        ELSE rng[i]]

-----------------------------------------------------------------------------
(* Session state and the data source *)

NoneVal == [kind |-> "None"]

\* st.session_state[key] = value
Store(ss, key, value) ==
    [k \in DOMAIN ss \cup {key} |-> IF k = key THEN value ELSE ss[k]]

\* st.session_state.get(key, None)
Get(ss, key) == IF key \in DOMAIN ss THEN ss[key] ELSE NoneVal

\* the initialisation without its "if key not in st.session_state" guard
InitKeys_Unguarded(ss) ==
    [k \in DOMAIN ss \cup {"var_result", "histogram_fig", "data"} |->
        IF k \in {"var_result", "histogram_fig", "data"} THEN NoneVal ELSE ss[k]]

\* lines 65-67: the three return-VaR keys exist from the first run on
InitKeys(ss) ==
    [k \in DOMAIN ss \cup {"var_result", "histogram_fig", "data"} |->
        IF k \in DOMAIN ss THEN ss[k] ELSE NoneVal]

\* frame["Close"], frame["High"], frame["Low"]: one column as a Series
Column(frame, name) ==
    [i \in 1..Len(frame.rows) |->
        [Date |-> frame.rows[i].Date, v |-> FInt(frame.rows[i][name])]]

\* DataFrame.empty / Series.empty
Empty(rows) == Len(rows) = 0

\* what one script run did: the stages the pressed handler went through,
\* the number of calls of yf.download, the st.error message shown, the
\* exception that ended the run, and the session keys the run assigned
Outcome(ss, trace, fetches, error, raised, written) ==
    [ss |-> ss, trace |-> trace, fetches |-> fetches, error |-> error,
     raised |-> raised, written |-> written]

\* yf.download returns a DataFrame, never None
IsNone(data) == FALSE

\* datetime.today().date()
Today == MaxDate - 1

\* the validation without its check for future dates
validate_dates_NoFuture(start_date, end_date) ==
    IF end_date < start_date THEN "EndBeforeStart" ELSE ""

\* validate_dates(start_date, end_date): "" when valid, else the message
validate_dates(start_date, end_date) ==
    IF end_date < start_date THEN "EndBeforeStart"
    ELSE IF start_date > Today \/ end_date > Today THEN "FutureDate"
    ELSE ""

-----------------------------------------------------------------------------
(* The three button handlers.  c holds the widget values of the run, frame *)
(* is what yf.download returns, rng what the random generator yields, and  *)
(* emptyPct what the installed numpy does for np.percentile of an empty    *)
(* array ("nan": returns NaN, "raise": raises IndexError).                 *)

\* line 107: returns = data.pct_change(analysis_period).dropna()
returns_of(data, analysis_period) == dropna(pct_change(data, analysis_period))

\* the threshold taken at var_percentile instead of 100 - var_percentile
VaR_value_NoComplement(simulated_returns, var_percentile) ==
    FMul(percentile(simulated_returns, var_percentile), FInt(100))

\* line 112: np.percentile(simulated_returns, 100 - var_percentile) * 100
VaR_value(simulated_returns, var_percentile) ==
    FMul(percentile(simulated_returns, FSub(FInt(100), var_percentile)),
         FInt(100))

\* the tail mean taken over the samples above the threshold
CVaR_value_UpperTail(simulated_returns, VaR) ==
    FMul(Mean(SelectSeq(simulated_returns,
                        LAMBDA x : FLess(FDiv(VaR, FInt(100)), x))),
         FInt(100))

\* line 114: simulated_returns[simulated_returns < (VaR_value / 100)].mean() * 100
CVaR_value(simulated_returns, VaR) ==
    FMul(Mean(SelectSeq(simulated_returns,
                        LAMBDA x : FLess(x, FDiv(VaR, FInt(100))))),
         FInt(100))

\* lines 120-132: the figure is built and the three keys are assigned
StoreVaR(ss, c, returns, simulated_returns, VaR) ==
    LET fig == [kind |-> "Figure", x |-> simulated_returns,
                title |-> c.stock, vline |-> FDiv(VaR, FInt(100))]
        s1 == Store(ss, "var_result",
                    [kind |-> "dict", VaR_value |-> VaR,
                     CVaR_value |-> CVaR_value(simulated_returns, VaR),
                     var_percentile |-> c.var_percentile])
        s2 == Store(s1, "histogram_fig", fig)
        s3 == Store(s2, "data", [kind |-> "Series", rows |-> returns])
    IN  Outcome(s3, <<"Validating", "Fetching", "Computing", "Ready">>,
                1, "", "", {"var_result", "histogram_fig", "data"})

\* lines 112-132: the threshold of the simulated returns, then the stores
ReduceVaR(ss, c, returns, simulated_returns) ==
    StoreVaR(ss, c, returns, simulated_returns,
             VaR_value(simulated_returns, c.var_percentile))

\* lines 108-132: mu and sigma of the returns, the simulation, then the rest
SimulateVaR(ss, c, returns, rng) ==
    LET mu == Mean(Values(returns))
        sigma == StdSq(Values(returns))
    IN  ReduceVaR(ss, c, returns, normal(mu, sigma, c.simulations, rng))

\* lines 100-136
CalculateVaR(ss, c, frame, rng) ==
    LET msg == validate_dates(c.start_date, c.end_date)
        data == Column(frame, "Close")
    IN  IF msg # ""
        THEN Outcome(ss, <<"Validating", "Failed">>, 0, msg, "", {})
        ELSE IF ~IsNone(data) /\ ~Empty(data)
        THEN SimulateVaR(ss, c, returns_of(data, c.analysis_period), rng)
        ELSE Outcome(ss, <<"Validating", "Fetching", "Failed">>,
                     1, "FetchError", "", {})

\* lines 176-177: the rolling sum of High - Low over hl_analysis_period rows
hl_range(data_hl, hl_analysis_period) ==
    LET high == Column(data_hl, "High")
        low == Column(data_hl, "Low")
        diff == [i \in 1..Len(high) |->
                    [Date |-> high[i].Date, v |-> FSub(high[i].v, low[i].v)]]
    IN  dropna(rolling_sum(diff, hl_analysis_period))

\* line 178: np.percentile(hl_range, 100 - hl_var_percentile), where numpy
\* returns a value for an empty array
VaR_hl_value(range, hl_var_percentile) ==
    IF Empty(range) THEN NaN
    ELSE percentile(Values(range), FSub(FInt(100), hl_var_percentile))

\* lines 178-181: the percentile of the range, then the stores; s1 is the
\* session with hl_stock_name already assigned (line 174)
ReduceHighLow(s1, c, data_hl, range, emptyPct) ==
    LET s2 == Store(s1, "hl_var_result",
                    [kind |-> "dict",
                     VaR |-> VaR_hl_value(range, c.hl_var_percentile),
                     Percentile |-> c.hl_var_percentile])
        s3 == Store(s2, "data_hl", data_hl)
    IN  IF Empty(range) /\ emptyPct = "raise"
        THEN Outcome(s1, <<"Validating", "Fetching", "Computing", "Failed">>,
                     1, "", "IndexError", {"hl_stock_name"})
        ELSE Outcome(s3, <<"Validating", "Fetching", "Computing", "Ready">>,
                     1, "", "",
                     {"hl_stock_name", "hl_var_result", "data_hl"})

\* lines 168-185
CalculateHighLowVaR(ss, c, frame, emptyPct) ==
    LET msg == validate_dates(c.start_date, c.end_date)
        data_hl == frame
    IN  IF msg # ""
        THEN Outcome(ss, <<"Validating", "Failed">>, 0, msg, "", {})
        ELSE IF /\ ~IsNone(data_hl) /\ ~Empty(data_hl.rows)
                /\ "High" \in data_hl.columns /\ "Low" \in data_hl.columns
        THEN ReduceHighLow(Store(ss, "hl_stock_name", c.stock), c, data_hl,
                           hl_range(data_hl, c.hl_analysis_period), emptyPct)
        ELSE Outcome(Store(ss, "hl_var_result", NoneVal),
                     <<"Validating", "Fetching", "Failed">>,
                     1, "FetchError", "", {"hl_var_result"})

\* series * np.sqrt(250) * 100, carried by its square
Annualize(s) ==
    [i \in 1..Len(s) |->
        [Date |-> s[i].Date,
         v |-> FMul(FMul(s[i].v, FInt(TradingDays)), FInt(100 * 100))]]

\* series.loc[labels]: the rows of the series with these index labels
Loc(s, labels) == SelectSeq(s, LAMBDA e : e.Date \in labels)

\* lines 236-237: data_rv.pct_change().rolling(window).std().dropna()
\* .squeeze() * np.sqrt(250) * 100, before the squeeze takes effect
rolling_vol(data_rv, window) ==
    Annualize(dropna(rolling_std(pct_change(data_rv, 1), window)))

\* lines 244-248: pd.DataFrame({"Date", "Short Vol", "Long Vol"}).dropna()
vol_df(short_vol, long_vol) ==
    [kind |-> "DataFrame",
     rows |-> SelectSeq([i \in 1..Len(short_vol) |->
                            [Date |-> short_vol[i].Date,
                             ShortVol |-> short_vol[i].v,
                             LongVol |-> long_vol[i].v]],
                        LAMBDA r : ~r.ShortVol.nan /\ ~r.LongVol.nan)]

\* lines 244-252: the frame of the two aligned series is built (columns of
\* unequal length are a ValueError) and the two keys are assigned
StoreVolatility(ss, c, short_vol, long_vol) ==
    IF Len(short_vol) # Len(long_vol)
    THEN Outcome(ss, <<"Validating", "Fetching", "Computing", "Failed">>,
                 1, "", "ValueError", {})
    ELSE Outcome(Store(Store(ss, "data_rv", vol_df(short_vol, long_vol)),
                       "rv_stock_name", c.stock),
                 <<"Validating", "Fetching", "Computing", "Ready">>,
                 1, "", "", {"data_rv", "rv_stock_name"})

\* lines 241-252: long_vol is cut to the index of the short_vol of line 240
AlignLong(ss, c, short_vol, long_vol) ==
    StoreVolatility(ss, c, short_vol,
                    Loc(long_vol, Index(long_vol) \cap Index(short_vol)))

\* lines 240-252.  Series.squeeze() of a one-row Series is a scalar, which
\* has neither .loc nor .index
AlignVolatility(ss, c, short_vol, long_vol) ==
    IF Len(short_vol) = 1 \/ Len(long_vol) = 1
    THEN Outcome(ss, <<"Validating", "Fetching", "Computing", "Failed">>,
                 1, "", "AttributeError", {})
    ELSE AlignLong(ss, c,
                   Loc(short_vol, Index(short_vol) \cap Index(long_vol)),
                   long_vol)

\* lines 231-255
CalculateRollingVolatility(ss, c, frame) ==
    LET msg == validate_dates(c.start_date, c.end_date)
        data_rv == Column(frame, "Close")
    IN  IF msg # ""
        THEN Outcome(ss, <<"Validating", "Failed">>, 0, msg, "", {})
        ELSE IF ~IsNone(data_rv) \/ ~Empty(data_rv)
        THEN AlignVolatility(ss, c,
                             rolling_vol(data_rv, c.short_vol_window),
                             rolling_vol(data_rv, c.long_vol_window))
        ELSE Outcome(ss, <<"Validating", "Fetching", "Failed">>,
                     1, "FetchError", "", {})

\* lines 188-194: the High-Low display reads the last two closes of data_hl;
\* "" when it renders (or is skipped), else the exception it raises
HighLowDisplay(ss) ==
    IF Get(ss, "hl_var_result") = NoneVal THEN ""
    ELSE IF Get(ss, "data_hl") = NoneVal THEN "TypeError"
    ELSE IF Len(Get(ss, "data_hl").rows) < 2 THEN "IndexError"
    ELSE ""

\* lines 96-150 and 152-185: the section of the return VaR and the section
\* of the High-Low VaR, of which at most one has its button pressed; ss is
\* the session after lines 65-67
VaRSections(ss, c, frame, rng, emptyPct) ==
    IF c.button = "Calculate VaR"
    THEN CalculateVaR(ss, c, frame, rng)
    ELSE IF c.button = "Calculate High-Low VaR"
    THEN CalculateHighLowVaR(ss, c, frame, emptyPct)
    ELSE Outcome(ss, <<>>, 0, "", "", {})

\* lines 188-255: the High-Low display, the window inputs and the section of
\* the rolling volatility, after the run r of the sections above
VolatilitySection(r, c, frame) ==
    IF r.raised # "" THEN r
    ELSE IF HighLowDisplay(r.ss) # ""
    THEN [r EXCEPT !.raised = HighLowDisplay(r.ss)]
    ELSE IF c.end_date - c.start_date < MinWindow
    THEN [r EXCEPT !.raised = "StreamlitAPIException"]
    ELSE IF c.button = "Calculate Rolling Volatility"
    THEN CalculateRollingVolatility(r.ss, c, frame)
    ELSE r

\* One run of the script with the button c.button pressed.
Script(ss0, c, frame, rng, emptyPct) ==
    LET date_range_days == c.end_date - c.start_date
    IN  IF date_range_days < 0
        THEN Outcome(ss0, <<"Validating", "Failed">>, 0, "EndBeforeStart", "", {})
        ELSE IF c.stock = ""
        THEN Outcome(ss0, <<>>, 0, "", "", {})
        ELSE VolatilitySection(
                 VaRSections(InitKeys(ss0), c, frame, rng, emptyPct), c, frame)

-----------------------------------------------------------------------------
(* Inputs: widget values, and what the outside world hands to a run *)

\* high and low prices of a row
PriceVals == 1..MaxPrice

\* closing prices of a row
ClosePrices == {1, 2}

\* number_input(min_value=0.01, max_value=99.99), in percent
VarPercentiles ==
    {Rat(MinPct, 100), Rat(50, 1), Rat(DefaultPct, 100), Rat(MaxPct, 100)}

HlPercentiles ==
    {Rat(MinPct, 100), Rat(50, 1), Rat(DefaultHlPct, 100), Rat(MaxPct, 100)}

\* number_input(min_value=1, max_value=30), as far as series of at most
\* maxRows rows can tell two periods apart
Periods(maxRows) == MinPeriod..Min(MaxPeriod, maxRows)

\* the simulation count, scaled down from 100..10000
Simulations == 1..MaxSim

\* the values a draw of the generator can take
SampleVals == {Rat(k, 100) : k \in (0 - MaxSample)..MaxSample}

\* a button press with every widget at its smallest value
BaseClick(button, stock, start_date, end_date) ==
    [pending |-> TRUE, button |-> button, stock |-> stock,
     start_date |-> start_date, end_date |-> end_date,
     analysis_period |-> MinPeriod,
     var_percentile |-> Rat(DefaultPct, 100),
     simulations |-> 1,
     hl_analysis_period |-> MinPeriod,
     hl_var_percentile |-> Rat(DefaultHlPct, 100),
     short_vol_window |-> MinWindow,
     long_vol_window |-> MinWindow]

Buttons ==
    {"Calculate VaR", "Calculate High-Low VaR", "Calculate Rolling Volatility"}

\* the frames yf.download can return for the range of c: at most one row per
\* calendar day of [start_date, end_date), at most maxRows rows
FramesFor(c, rowVals, maxRows, columnSets) ==
    LET span == c.end_date - c.start_date
        top == IF span < 0 THEN 0 ELSE Min(span, maxRows)
    IN  UNION {
          {[columns |-> cols,
            rows |-> [i \in 1..n |->
                        [Date |-> c.start_date + i - 1,
                         Close |-> f[i].Close,
                         High |-> f[i].High,
                         Low |-> f[i].Low]]] :
             f \in [1..n -> rowVals], cols \in columnSets} :
          n \in 0..top}

AllColumns == {"Close", "High", "Low"}

World(frame, rng, emptyPct) ==
    [frame |-> frame, rng |-> rng, emptyPct |-> emptyPct]

EmptyPctOutcomes == {"nan", "raise"}

(* The session: any sequence of button presses, over few distinct inputs *)

SessionStocks == {"SPY", "QQQ"}

SessionDates == {<<0, Today>>, <<Today, MaxDate>>, <<1, 0>>}

SessionRowVals == {[Close |-> MaxPrice, High |-> MaxPrice, Low |-> 1]}

SessionClicks ==
    {[BaseClick(b, s, d[1], d[2]) EXCEPT !.hl_analysis_period = SessionRows] :
        b \in Buttons, s \in SessionStocks, d \in SessionDates}

SessionFrames(c) ==
    FramesFor(c, SessionRowVals, SessionRows,
              IF c.button = "Calculate High-Low VaR"
              THEN {AllColumns, {"Close"}} ELSE {AllColumns})

SessionRngs(c) == {<<Rat(0, 1)>>}

(* One run from the first page load, over many inputs *)

\* a long valid range, two short ones, an end date and a start date in the
\* future, and an end date before the start date
OnceDates ==
    {<<0, Today>>, <<Today - 1, Today>>, <<Today, Today>>,
     <<Today - 1, MaxDate>>, <<MaxDate, MaxDate>>, <<1, 0>>}

CloseRowVals == {[Close |-> v, High |-> v, Low |-> v] : v \in ClosePrices}

RangeRowVals ==
    {r \in {[Close |-> h, High |-> h, Low |-> l] :
                h \in PriceVals, l \in PriceVals} : r.Low <= r.High}

VaRClicks ==
    {[BaseClick("Calculate VaR", "SPY", d[1], d[2]) EXCEPT
         !.analysis_period = h, !.var_percentile = p, !.simulations = n] :
        d \in OnceDates, h \in Periods(VarRows), p \in VarPercentiles,
        n \in Simulations}

HlClicks ==
    {[BaseClick("Calculate High-Low VaR", "SPY", d[1], d[2]) EXCEPT
         !.hl_analysis_period = h, !.hl_var_percentile = p] :
        d \in OnceDates, h \in Periods(HlRows), p \in HlPercentiles}

\* number_input(min_value=1, max_value=date_range_days)
Windows(date_range_days) == MinWindow..date_range_days

RvClicks ==
    UNION {
      {[BaseClick("Calculate Rolling Volatility", "SPY", d[1], d[2]) EXCEPT
           !.short_vol_window = ws, !.long_vol_window = wl] :
          ws \in Windows(d[2] - d[1]), wl \in Windows(d[2] - d[1])} :
      d \in OnceDates}

\* an empty symbol box
NoStockClicks == {BaseClick(b, "", 0, Today) : b \in Buttons}

OnceClicks == VaRClicks \cup HlClicks \cup RvClicks \cup NoStockClicks

OnceFrames(c) ==
    IF c.button = "Calculate VaR"
    THEN FramesFor(c, CloseRowVals, VarRows, {AllColumns})
    ELSE IF c.button = "Calculate High-Low VaR"
    THEN FramesFor(c, RangeRowVals, HlRows, {AllColumns})
         \cup FramesFor(c, CloseRowVals, HlRows, {{"Close"}})
    ELSE FramesFor(c, CloseRowVals, RvRows, {AllColumns})

OnceRngs(c) ==
    IF c.button = "Calculate VaR"
    THEN [1..c.simulations -> SampleVals] ELSE {<<>>}

\* what np.percentile does with an empty array matters to one handler only
EmptyPcts(c) ==
    IF c.button = "Calculate High-Low VaR" THEN EmptyPctOutcomes ELSE {"nan"}

-----------------------------------------------------------------------------
(* State machine *)

NoClick == [BaseClick("", "", 0, 0) EXCEPT !.pending = FALSE]

NoWorld == World([columns |-> {}, rows |-> <<>>], <<>>, "nan")

NoRun == [trace |-> <<>>, fetches |-> 0, error |-> "", raised |-> "",
          written |-> {}]

\* the session after the first page load (lines 65-67)
FirstLoad == [k \in {"var_result", "histogram_fig", "data"} |-> NoneVal]

Init ==
    /\ session_state = FirstLoad
    /\ click = NoClick
    /\ world = NoWorld
    /\ lastRun = NoRun

\* the user sets the widgets and presses a button
Press ==
    /\ ~click.pending
    /\ \E c \in SessionClicks :
       \E f \in SessionFrames(c), r \in SessionRngs(c), e \in EmptyPcts(c) :
          /\ click' = c
          /\ world' = World(f, r, e)
    /\ UNCHANGED <<session_state, lastRun>>

\* Streamlit re-runs the script for the pressed button
Rerun ==
    /\ click.pending
    /\ \E r \in {Script(session_state, click, world.frame, world.rng,
                        world.emptyPct)} :
          /\ session_state' = r.ss
          /\ lastRun' = [trace |-> r.trace, fetches |-> r.fetches,
                         error |-> r.error, raised |-> r.raised,
                         written |-> r.written]
    /\ click' = [click EXCEPT !.pending = FALSE]
    /\ UNCHANGED world

RunCalculateVaR == click.button = "Calculate VaR" /\ Rerun

RunCalculateHighLowVaR == click.button = "Calculate High-Low VaR" /\ Rerun

RunCalculateRollingVolatility ==
    click.button = "Calculate Rolling Volatility" /\ Rerun

Next ==
    \/ Press
    \/ RunCalculateVaR
    \/ RunCalculateHighLowVaR
    \/ RunCalculateRollingVolatility

Spec == Init /\ [][Next]_vars

\* one button press on a freshly loaded page
InitOnce ==
    /\ session_state = FirstLoad
    /\ click \in OnceClicks
    /\ \E f \in OnceFrames(click), r \in OnceRngs(click),
          e \in EmptyPcts(click) : world = World(f, r, e)
    /\ lastRun = NoRun

NextOnce ==
    \/ RunCalculateVaR
    \/ RunCalculateHighLowVaR
    \/ RunCalculateRollingVolatility

SpecOnce == InitOnce /\ [][NextOnce]_vars

-----------------------------------------------------------------------------
(* Vocabulary of the properties *)

\* a script run has just consumed the button press held in click
Ran == ~click.pending /\ click.button \in Buttons

\* the step that is a script run
RunStep == click.pending /\ ~click'.pending

\* the dates of the press are rejected by the rules of the input table:
\* end before start, or a date later than today
InvalidDates(c) ==
    \/ c.end_date < c.start_date
    \/ c.start_date > Today
    \/ c.end_date > Today

\* the script gets as far as the handler of the pressed button
Reached(ss, c) ==
    /\ c.end_date >= c.start_date
    /\ c.stock # ""
    /\ c.button = "Calculate Rolling Volatility" =>
          /\ HighLowDisplay(ss) = ""
          /\ c.end_date - c.start_date >= MinWindow

\* the data source has nothing usable for the pressed analysis
FetchFails(c, w) ==
    \/ Empty(w.frame.rows)
    \/ /\ c.button = "Calculate High-Low VaR"
       /\ ~({"High", "Low"} \subseteq w.frame.columns)

\* the session key holding the result of an analysis
ResultKey(button) ==
    IF button = "Calculate VaR" THEN "var_result"
    ELSE IF button = "Calculate High-Low VaR" THEN "hl_var_result"
    ELSE "data_rv"

VarKeys == {"var_result", "histogram_fig", "data"}

HlKeys == {"hl_var_result", "data_hl", "hl_stock_name"}

RvKeys == {"data_rv", "rv_stock_name"}

\* the session keys of the two analyses other than the pressed one
OtherKeys(button) ==
    IF button = "Calculate VaR" THEN HlKeys \cup RvKeys
    ELSE IF button = "Calculate High-Low VaR" THEN VarKeys \cup RvKeys
    ELSE VarKeys \cup HlKeys

\* key k is present or absent, and holds the same value, before and after
SameKey(k) ==
    /\ (k \in DOMAIN session_state) <=> (k \in DOMAIN session_state')
    /\ k \in DOMAIN session_state => session_state'[k] = session_state[k]

LastStage(run) == IF run.trace = <<>> THEN "" ELSE run.trace[Len(run.trace)]

Stored(key) == Get(session_state, key) # NoneVal

-----------------------------------------------------------------------------
(* C1: a run that fails (invalid dates, or an empty fetch, or missing      *)
(* High/Low columns) leaves the stored result of its analysis (var_result, *)
(* hl_var_result, data_rv) exactly as it was.                              *)
C1_FailedRunKeepsResult ==
    [][(RunStep /\ (InvalidDates(click) \/ FetchFails(click, world)))
          => Get(session_state', ResultKey(click.button))
                = Get(session_state, ResultKey(click.button))]_vars

(* C2: a run of one analysis leaves every session key of the other two     *)
(* analyses as it was, whether the run succeeds or fails.                  *)
C2_OtherAnalysesUntouched ==
    [][RunStep => \A k \in OtherKeys(click.button) : SameKey(k)]_vars

\* a High-Low run has stored its result while the other two analyses hold
\* results of their own
C2_Witness ==
    /\ Ran
    /\ click.button = "Calculate High-Low VaR"
    /\ HlKeys \subseteq lastRun.written
    /\ Stored("var_result")
    /\ "data_rv" \in DOMAIN session_state

(* C3: with an end date before the start date, or a date later than today, *)
(* a run goes Validating -> Failed, never calls the data source and stores *)
(* nothing.                                                                *)
C3_ValidationBeforeFetch ==
    [][(RunStep /\ InvalidDates(click))
          => /\ lastRun'.fetches = 0
             /\ session_state' = session_state
             /\ Reached(session_state, click) \/ click.end_date < click.start_date
                   => lastRun'.trace = <<"Validating", "Failed">>
             /\ lastRun'.trace \in {<<>>, <<"Validating", "Failed">>}]_vars

\* a run with a future end date has been rejected while a result was stored
C3_Witness ==
    /\ Ran
    /\ click.end_date > Today
    /\ click.start_date <= click.end_date
    /\ world.frame.rows # <<>>
    /\ lastRun.trace = <<"Validating", "Failed">>
    /\ lastRun.error = "FutureDate"
    /\ Stored("var_result")

(* C4: when the fetch returns an empty series (or, for High-Low, a frame   *)
(* without High/Low columns), a run goes Fetching -> Failed: an error is   *)
(* shown, Computing is not entered and no new result is stored.            *)
C4_EmptyFetchFails ==
    [][(/\ RunStep
        /\ ~InvalidDates(click)
        /\ Reached(session_state, click)
        /\ FetchFails(click, world))
          => /\ lastRun'.trace = <<"Validating", "Fetching", "Failed">>
             /\ lastRun'.error = "FetchError"
             /\ Get(session_state', ResultKey(click.button))
                   \in {Get(session_state, ResultKey(click.button)), NoneVal}]_vars

(* C9: the session keys of an analysis are assigned together or not at     *)
(* all, and only by a run that reaches Ready; no run leaves a mix of old   *)
(* and new fields.                                                         *)
C9_WholesaleUpdate ==
    /\ \A g \in {VarKeys, HlKeys, RvKeys} : lastRun.written \cap g \in {{}, g}
    /\ lastRun.written # {} => LastStage(lastRun) = "Ready"

-----------------------------------------------------------------------------
(* Properties of one run (SpecOnce) *)

\* the closing prices the data source returned
Closes == [i \in 1..Len(world.frame.rows) |-> world.frame.rows[i].Close]

\* a run with valid dates whose handler was reached and fetched rows
FetchedRun(button) ==
    /\ Ran
    /\ click.button = button
    /\ ~InvalidDates(click)
    /\ Reached(FirstLoad, click)
    /\ Len(world.frame.rows) >= 1

(* C5: for a non-empty price series of n rows and a horizon h, the return  *)
(* series has n - h entries close[i]/close[i-h] - 1 when h < n; when       *)
(* h >= n the run fails with an error and no result is stored.             *)
C5_ReturnSeries ==
    FetchedRun("Calculate VaR") =>
        LET n == Len(Closes)
            h == click.analysis_period
        IN  IF h < n
            THEN /\ session_state.data # NoneVal
                 /\ Len(session_state.data.rows) = n - h
                 /\ \A i \in 1..(n - h) :
                       session_state.data.rows[i].v
                          = Rat(Closes[i + h] - Closes[i], Closes[i])
            ELSE /\ session_state.var_result = NoneVal
                 /\ LastStage(lastRun) = "Failed"
                 /\ lastRun.error # ""

(* C6: when a window exceeds the number of fetched rows (a volatility      *)
(* window in the rolling-volatility run, the High-Low period in the        *)
(* High-Low run) the run ends in Failed and stores no result; and no       *)
(* accepted window leads to a stored empty volatility pair.                *)
C6_WindowExceedsHistory ==
    LET n == Len(world.frame.rows)
    IN  /\ (/\ FetchedRun("Calculate Rolling Volatility")
            /\ click.short_vol_window > n \/ click.long_vol_window > n)
              => /\ LastStage(lastRun) = "Failed"
                 /\ "data_rv" \notin DOMAIN session_state
        /\ (/\ FetchedRun("Calculate High-Low VaR")
            /\ {"High", "Low"} \subseteq world.frame.columns
            /\ click.hl_analysis_period > n)
              => /\ LastStage(lastRun) = "Failed"
                 /\ ~Stored("hl_var_result")
        /\ (FetchedRun("Calculate Rolling Volatility")
               /\ "data_rv" \in DOMAIN session_state)
              => session_state.data_rv.rows # <<>>

(* C7: whenever at least one sample lies strictly below the VaR threshold, *)
(* the stored result has CVaR <= VaR.                                      *)
C7_CVaRBelowVaR ==
    Stored("var_result") =>
        LET x == session_state.histogram_fig.x
            r == session_state.var_result
        IN  (\E i \in 1..Len(x) : FLess(x[i], FDiv(r.VaR_value, FInt(100))))
               => FLeq(r.CVaR_value, r.VaR_value)

\* a result whose tail is not empty and whose CVaR is strictly below its VaR
C7_Witness ==
    /\ Ran
    /\ Stored("var_result")
    /\ \E i \in 1..Len(session_state.histogram_fig.x) :
          FLess(session_state.histogram_fig.x[i],
                FDiv(session_state.var_result.VaR_value, FInt(100)))
    /\ FLess(session_state.var_result.CVaR_value,
             session_state.var_result.VaR_value)

\* the rolling High-Low sums of the stored frame
StoredRange == Values(hl_range(session_state.data_hl, click.hl_analysis_period))

(* C8: for the samples of a stored result, a higher percentile never gives *)
(* a higher VaR threshold, in the return-VaR reduction and in the High-Low *)
(* reduction.                                                              *)
C8_VaRMonotone ==
    /\ (Stored("var_result") /\ ~HasNaN(session_state.histogram_fig.x)) =>
          LET x == session_state.histogram_fig.x
              r == session_state.var_result
          IN  \A p \in VarPercentiles :
                 /\ FLeq(r.var_percentile, p)
                       => FLeq(VaR_value(x, p), r.VaR_value)
                 /\ FLeq(p, r.var_percentile)
                       => FLeq(r.VaR_value, VaR_value(x, p))
    /\ (Ran /\ Stored("hl_var_result") /\ StoredRange # <<>>) =>
          LET r == session_state.hl_var_result
          IN  \A p \in HlPercentiles :
                 /\ FLeq(r.Percentile, p)
                       => FLeq(VaR_hl_value(hl_range(session_state.data_hl,
                                    click.hl_analysis_period), p), r.VaR)
                 /\ FLeq(p, r.Percentile)
                       => FLeq(r.VaR, VaR_hl_value(hl_range(session_state.data_hl,
                                    click.hl_analysis_period), p))

\* a stored VaR for which a higher percentile gives a strictly lower threshold
C8_Witness ==
    /\ Ran
    /\ Stored("var_result")
    /\ ~HasNaN(session_state.histogram_fig.x)
    /\ \E p \in VarPercentiles :
          /\ FLess(session_state.var_result.var_percentile, p)
          /\ FLess(VaR_value(session_state.histogram_fig.x, p),
                   session_state.var_result.VaR_value)

\* the dates on which a rolling standard deviation over w daily returns is
\* defined: it needs w >= 2 returns, that is w + 1 closing prices
DefinedDates(w) ==
    {world.frame.rows[i].Date :
        i \in {j \in 1..Len(world.frame.rows) : w >= 2 /\ j >= w + 1}}

StoredDates ==
    {session_state.data_rv.rows[i].Date :
        i \in 1..Len(session_state.data_rv.rows)}

(* C10: the volatility pair stored by a successful rolling-volatility run  *)
(* has one row per date on which both the short and the long rolling       *)
(* standard deviation are defined, and no other row.                       *)
C10_CommonDates ==
    (Ran /\ click.button = "Calculate Rolling Volatility"
         /\ LastStage(lastRun) = "Ready") =>
        /\ StoredDates = DefinedDates(click.short_vol_window)
                            \cap DefinedDates(click.long_vol_window)
        /\ Len(session_state.data_rv.rows) = Cardinality(StoredDates)

\* a stored pair of two different windows, from which the dates that only
\* the shorter window covers were dropped
C10_Witness ==
    /\ Ran
    /\ click.button = "Calculate Rolling Volatility"
    /\ LastStage(lastRun) = "Ready"
    /\ Len(session_state.data_rv.rows) >= 2
    /\ DefinedDates(click.short_vol_window)
          # DefinedDates(click.long_vol_window)

====
